---- MODULE Spec2Model ----
(***************************************************************************)
(* Model of app.py: the audio-to-text meeting analyser.  One script run    *)
(* per upload: save, preprocess_audio, split_audio, speech-to-text loop,   *)
(* minutes, evaluate_productivity, sentiment_analysis.  Strings are        *)
(* sequences of character codes so that sorting, lower() and the `in`      *)
(* substring test are computed as Python computes them.                    *)
(***************************************************************************)
EXTENDS Integers, Sequences, FiniteSets, TLC

VARIABLES fs, dirs, pc, loc, calls, raised, shown, wrote

vars == <<fs, dirs, pc, loc, calls, raised, shown, wrote>>

(* ------------------------------ bounds --------------------------------- *)

\* Uploads of the pipeline last 0, UploadStep, ..., MaxUploads * UploadStep seconds.
MaxUploads == 11

UploadStep == 25

\* Sample rates of the file given to split_audio in its function-level runs.
MaxRate == 2

\* Function-level runs of split_audio: samples of the file, seconds per segment.
MaxSamples == 12

MaxSegDur == 3

\* Sentences the sentence tokenizer may return for one transcript.
MaxSentences == 2

\* Concurrent runs: uploads of UploadStep, ..., MaxConcUploads * UploadStep seconds.
MaxConcUploads == 2

\* End-to-end case: sample rates 1..MaxE2ERate besides the usual audio rates.
MaxE2ERate == 16

(* ------------------------- program constants --------------------------- *)

\* split_audio(file_name, output_dir="out", segment_duration=30)
DefaultSegmentDuration == 30

\* librosa.effects.time_stretch(audio, rate=0.95): rate = StretchNum / StretchDen
StretchNum == 19

StretchDen == 20

Sessions == {"A", "B"}

Rates == 1..MaxRate

(* ------------------------------ strings -------------------------------- *)

Dot == 46

STR_uploaded_audio_wav ==
    <<117, 112, 108, 111, 97, 100, 101, 100, 95, 97, 117, 100, 105, 111, 46, 119, 97, 118>>

STR_preprocessed == <<112, 114, 101, 112, 114, 111, 99, 101, 115, 115, 101, 100>>

STR_preprocessed_ == <<112, 114, 101, 112, 114, 111, 99, 101, 115, 115, 101, 100, 95>>

STR_out == <<111, 117, 116>>

STR_split_ == <<115, 112, 108, 105, 116, 95>>

STR_wav == <<46, 119, 97, 118>>

STR_uploaded_audio == <<117, 112, 108, 111, 97, 100, 101, 100, 95, 97, 117, 100, 105, 111>>

\* str(n) for n >= 0: the decimal digits, most significant first.
RECURSIVE str(_)
str(n) == IF n < 10 THEN <<48 + n>> ELSE str(n \div 10) \o <<48 + (n % 10)>>

\* a < b on Python strings: code-point lexicographic order.
StrLess(a, b) ==
    \E i \in 1..Len(b) :
        /\ Len(a) >= i - 1
        /\ \A j \in 1..(i - 1) : a[j] = b[j]
        /\ (Len(a) = i - 1 \/ a[i] < b[i])

\* sorted(names) for a set of distinct strings.
RECURSIVE sorted(_)
sorted(S) ==
    IF S = {} THEN <<>>
    ELSE LET m == CHOOSE x \in S : \A y \in S \ {x} : StrLess(x, y)
         IN  <<m>> \o sorted(S \ {m})

(* ------------------------------- paths --------------------------------- *)
\* A path is the sequence of its components.

path_join(dir, name) == Append(dir, name)

basename(p) == p[Len(p)]

dirname(p) == SubSeq(p, 1, Len(p) - 1)

\* os.path.splitext(name)[0]: the name up to its last dot (a leading dot is kept).
splitext_root(name) ==
    LET dots == {i \in 2..Len(name) : name[i] = Dot}
    IN  IF dots = {} THEN name
        ELSE SubSeq(name, 1, (CHOOSE i \in dots : \A j \in dots : j <= i) - 1)

\* The fixed name the upload is saved under ("uploaded_audio.wav").
UploadPath == <<STR_uploaded_audio_wav>>

\* preprocess_audio: os.path.join(output_dir, f"preprocessed_{basename}")
PreprocessedPath(file_name) ==
    path_join(<<STR_preprocessed>>, STR_preprocessed_ \o basename(file_name))

\* Faulty variant: the directory is named after the upload, not after the file given.
SplitDirOfUpload(file_name) == path_join(<<STR_out>>, STR_uploaded_audio)

\* split_audio: os.path.join(output_dir, file_base_name)
SplitDir(file_name) == path_join(<<STR_out>>, splitext_root(basename(file_name)))

\* f"split_{counter}.wav"
SplitName(counter) == STR_split_ \o str(counter) \o STR_wav

\* os.listdir(dir): the names of the files directly in dir.
listdir(files, dir) == {basename(p) : p \in {q \in DOMAIN files : dirname(q) = dir}}

(* ------------------------------- audio --------------------------------- *)
\* An audio value is the samples [lo, hi) of the signal derived from the upload
\* of one run (src), at sample rate sr.  Files left by a finished run of the
\* same session hold Stale.

NoAudio == [src |-> "none", lo |-> 0, hi |-> 0, sr |-> 0]

Stale == [src |-> "stale", lo |-> 0, hi |-> 0, sr |-> 0]

len(audio) == audio.hi - audio.lo

Min(a, b) == IF a < b THEN a ELSE b

\* audio[a : b] with Python's clamping of slice ends.
Slice(audio, a, b) ==
    [audio EXCEPT !.lo = Min(audio.lo + a, audio.hi),
                  !.hi = Min(audio.lo + Min(b, len(audio)), audio.hi)]

\* Faulty variant: the rate applied the wrong way round (n * rate).
StretchLenInverted(n) == (2 * StretchNum * n + StretchDen) \div (2 * StretchDen)

\* Length of time_stretch(audio, rate): int(round(n / rate)), rate = 19/20.
\* n * 20 / 19 is never a half, so round is floor(x + 1/2).
StretchLen(n) == (2 * StretchDen * n + StretchNum) \div (2 * StretchNum)

time_stretch(audio) == [audio EXCEPT !.lo = 0, !.hi = StretchLen(len(audio))]

(* ------------------------------- texts --------------------------------- *)
\* The recognizer is a black box: its text for a segment file is identified by
\* the audio the file held when it was read.

Recognize(audio) == [kind |-> "speech", of |-> audio]

\* The "\n\n" separator of the transcript.
Separator == [kind |-> "sep", of |-> NoAudio]

\* "\n\n".join(ls)
RECURSIVE join(_)
join(ls) ==
    IF Len(ls) = 0 THEN <<>>
    ELSE IF Len(ls) = 1 THEN <<ls[1]>>
    ELSE join(SubSeq(ls, 1, Len(ls) - 1)) \o <<Separator, ls[Len(ls)]>>

\* productivity_keywords
productivity_keywords ==
    << <<100, 101, 99, 105, 115, 105, 111, 110>>,           \* decision
       <<116, 114, 97, 110, 115, 99, 114, 105, 98, 101>>,   \* transcribe
       <<112, 114, 111, 103, 114, 97, 109>>,                \* program
       <<116, 97, 115, 107>>,                               \* task
       <<97, 99, 116, 105, 111, 110>>,                      \* action
       <<112, 108, 97, 110>>,                               \* plan
       <<115, 111, 108, 117, 116, 105, 111, 110>>,          \* solution
       <<97, 103, 101, 110, 100, 97>>,                      \* agenda
       <<100, 105, 115, 99, 117, 115, 115>> >>              \* discuss

\* str.lower() on the ASCII letters.
lower(sentence) ==
    [i \in 1..Len(sentence) |->
        IF sentence[i] \in 65..90 THEN sentence[i] + 32 ELSE sentence[i]]

\* keyword in text
contains(keyword, text) ==
    \E k \in 0..(Len(text) - Len(keyword)) :
        SubSeq(text, k + 1, k + Len(keyword)) = keyword

\* Faulty variant: the sentence is not lowercased.
any_keyword_cased(sentence) ==
    \E n \in 1..Len(productivity_keywords) :
        contains(productivity_keywords[n], sentence)

\* any(keyword in sentence.lower() for keyword in productivity_keywords)
any_keyword(sentence) ==
    \E n \in 1..Len(productivity_keywords) :
        contains(productivity_keywords[n], lower(sentence))

\* The for loop of evaluate_productivity from sentence i on.
RECURSIVE productivity_loop(_, _, _)
productivity_loop(sentences, i, productive_segments) ==
    IF i > Len(sentences) THEN productive_segments
    ELSE productivity_loop(sentences, i + 1,
            IF any_keyword(sentences[i])
            THEN Append(productive_segments, sentences[i])
            ELSE productive_segments)

evaluate_productivity(sentences) == productivity_loop(sentences, 1, <<>>)

\* Sentences the tokenizer may return.
SentencePool ==
    { <<80, 108, 97, 110, 46>>,         \* "Plan."
      <<84, 65, 83, 75, 33>>,           \* "TASK!"
      <<72, 105, 46>>,                  \* "Hi."
      <<97, 32, 112, 108, 97, 110>> }   \* "a plan"

BoundedSeq(S, n) == UNION {[1..k -> S] : k \in 0..n}

\* Compound scores of the sentiment lexicon, in hundredths.
Scores == {-5, 0, 5}

PositiveThreshold == 5

NegativeThreshold == -5

\* sentiment_analysis, given the compound score of the text.
sentiment_analysis(compound) ==
    IF compound >= PositiveThreshold THEN "positive"
    ELSE IF compound <= NegativeThreshold THEN "negative"
    ELSE "neutral"

(* ------------------------------- state --------------------------------- *)
\* fs      the files: path -> audio held
\* dirs    the directories created by os.makedirs
\* pc      per session, the statement the script run is at
\* loc     per session, the variables of the script run and of the function it is in
\* calls   per session, the stage and recognizer calls made by the run so far
\* raised  per session, the index in calls of the call that raised (0: none)
\* shown   per session, what the run has rendered on the page
\* wrote   per session, the sf.write calls of the run's split_audio, in order

NoLocals ==
    [ audio_file          |-> NoAudio,
      preprocessed_file   |-> <<>>,
      segment_duration    |-> 0,
      audio_slow          |-> NoAudio,
      sr                  |-> 0,
      buffer              |-> 0,
      samples_total       |-> 0,
      samples_wrote       |-> 0,
      counter             |-> 0,
      split_dir           |-> <<>>,
      audio_ls            |-> <<>>,
      transcription_ls    |-> <<>>,
      transcription       |-> <<>>,
      final_note          |-> <<>>,
      sentences           |-> <<>>,
      productive_segments |-> <<>>,
      sentiment           |-> "" ]

NoFiles == [p \in {} |-> NoAudio]

\* files with path holding audio (open(..., "wb") / sf.write: create or overwrite).
write_file(files, path, audio) ==
    [p \in DOMAIN files \cup {path} |-> IF p = path THEN audio ELSE files[p]]

Call(stage, arg) == [stage |-> stage, arg |-> arg]

Show(panel, value) == [panel |-> panel, value |-> value]

\* Faulty variant: the exception is swallowed and the statement runs again.
AfterRaiseRetry(at) == at

\* The script has no try/except: an exception ends the script run.
AfterRaise(at) == "failed"

\* A call that raises: it is logged, nothing it would have produced exists, and
\* the run goes where AfterRaise says (its frame is gone once it has failed).
Raises(s, newcalls) ==
    /\ calls' = [calls EXCEPT ![s] = @ \o newcalls]
    /\ raised' = [raised EXCEPT ![s] = Len(calls[s]) + Len(newcalls)]
    /\ pc' = [pc EXCEPT ![s] = AfterRaise(pc[s])]
    /\ loc' = [loc EXCEPT ![s] = IF AfterRaise(pc[s]) = "failed" THEN NoLocals ELSE @]
    /\ wrote' = [wrote EXCEPT ![s] = IF AfterRaise(pc[s]) = "failed" THEN <<>> ELSE @]
    /\ UNCHANGED <<fs, dirs, shown>>

Init ==
    /\ fs = NoFiles
    /\ dirs = {}
    /\ pc = [s \in Sessions |-> "idle"]
    /\ loc = [s \in Sessions |-> NoLocals]
    /\ calls = [s \in Sessions |-> <<>>]
    /\ raised = [s \in Sessions |-> 0]
    /\ shown = [s \in Sessions |-> <<>>]
    /\ wrote = [s \in Sessions |-> <<>>]

(* ------------------------------ the script ------------------------------ *)

\* Line 92: a file is uploaded and the script runs from the top.  What the
\* session's earlier run left in the files is from now on another run's audio.
StartRun(s, seconds, rate) ==
    /\ pc[s] \in {"idle", "done", "failed"}
    /\ pc' = [pc EXCEPT ![s] = "save"]
    /\ loc' = [loc EXCEPT ![s] =
                 [NoLocals EXCEPT
                    !.audio_file = [src |-> s, lo |-> 0, hi |-> seconds * rate, sr |-> rate],
                    !.segment_duration = DefaultSegmentDuration]]
    /\ fs' = [p \in DOMAIN fs |-> IF fs[p].src = s THEN Stale ELSE fs[p]]
    /\ calls' = [calls EXCEPT ![s] = <<>>]
    /\ raised' = [raised EXCEPT ![s] = 0]
    /\ shown' = [shown EXCEPT ![s] = <<>>]
    /\ wrote' = [wrote EXCEPT ![s] = <<>>]
    /\ UNCHANGED dirs

\* Lines 95-97: save the uploaded file.
SaveUpload(s) ==
    /\ pc[s] = "save"
    /\ \/ /\ fs' = write_file(fs, UploadPath, loc[s].audio_file)
          /\ calls' = [calls EXCEPT ![s] = Append(@, Call("save", <<>>))]
          /\ pc' = [pc EXCEPT ![s] = "preprocess"]
          /\ UNCHANGED <<dirs, loc, raised, shown, wrote>>
       \/ Raises(s, <<Call("save", <<>>)>>)

\* Lines 99-101 and preprocess_audio (18-26).  np.max of an empty array raises.
Preprocess(s) ==
    /\ pc[s] = "preprocess"
    /\ LET file_name == UploadPath
           audio == fs[file_name]
           preprocessed_file == PreprocessedPath(file_name)
       IN  \/ /\ len(audio) > 0
              /\ dirs' = dirs \cup {dirname(preprocessed_file)}
              /\ fs' = write_file(fs, preprocessed_file, audio)
              /\ loc' = [loc EXCEPT ![s].preprocessed_file = preprocessed_file]
              /\ calls' = [calls EXCEPT ![s] = Append(@, Call("normalize", <<>>))]
              /\ shown' = [shown EXCEPT ![s] =
                             Append(@, Show("Audio preprocessed", preprocessed_file))]
              /\ pc' = [pc EXCEPT ![s] = "split"]
              /\ UNCHANGED <<raised, wrote>>
           \/ Raises(s, <<Call("normalize", <<>>)>>)

(* ------------------------------ split_audio ----------------------------- *)

\* counter = 1
FirstCounter == 1

\* Faulty variant: the loop stops one sample early.
LoopStopsEarly(samples_wrote, samples_total) == samples_wrote + 1 < samples_total

\* while samples_wrote < samples_total
LoopContinues(samples_wrote, samples_total) == samples_wrote < samples_total

\* if buffer > (samples_total - samples_wrote): buffer = samples_total - samples_wrote
ClampedBuffer(buffer, samples_total, samples_wrote) ==
    IF buffer > samples_total - samples_wrote
    THEN samples_total - samples_wrote
    ELSE buffer

\* Faulty variant: the slice ends one sample late.
BlockOneMore(audio_slow, samples_wrote, buffer) ==
    Slice(audio_slow, samples_wrote, samples_wrote + buffer + 1)

\* block = audio_slow[samples_wrote : (samples_wrote + buffer)]
Block(audio_slow, samples_wrote, buffer) ==
    Slice(audio_slow, samples_wrote, samples_wrote + buffer)

\* Lines 104 and 30-39: the call, the load, the stretch, the locals, the directory.
SplitLoad(s) ==
    /\ pc[s] = "split"
    /\ LET file_name == loc[s].preprocessed_file
           audio == fs[file_name]
           sr == audio.sr
           audio_slow == time_stretch(audio)
           split_dir == SplitDir(file_name)
       IN  \/ /\ loc' = [loc EXCEPT
                           ![s].audio_slow = audio_slow,
                           ![s].sr = sr,
                           ![s].buffer = loc[s].segment_duration * sr,
                           ![s].samples_total = len(audio_slow),
                           ![s].samples_wrote = 0,
                           ![s].counter = FirstCounter,
                           ![s].split_dir = split_dir]
              /\ dirs' = dirs \cup {split_dir}
              /\ calls' = [calls EXCEPT ![s] = Append(@, Call("segment", <<>>))]
              /\ pc' = [pc EXCEPT ![s] = "split_loop"]
              /\ UNCHANGED <<fs, raised, shown, wrote>>
           \/ Raises(s, <<Call("segment", <<>>)>>)

\* Lines 40-47: one iteration of the while loop.
SplitWrite(s) ==
    /\ pc[s] = "split_loop"
    /\ LoopContinues(loc[s].samples_wrote, loc[s].samples_total)
    /\ LET buffer == ClampedBuffer(loc[s].buffer, loc[s].samples_total,
                                   loc[s].samples_wrote)
           block == Block(loc[s].audio_slow, loc[s].samples_wrote, buffer)
           out_filename == path_join(loc[s].split_dir, SplitName(loc[s].counter))
       IN  \/ /\ fs' = write_file(fs, out_filename, block)
              /\ wrote' = [wrote EXCEPT ![s] =
                             Append(@, [path |-> out_filename, block |-> block])]
              /\ loc' = [loc EXCEPT
                           ![s].buffer = buffer,
                           ![s].counter = @ + 1,
                           ![s].samples_wrote = @ + buffer]
              /\ UNCHANGED <<dirs, pc, calls, raised, shown>>
           \/ Raises(s, <<>>)

\* Lines 48 and 105: the loop is over, split_dir is returned and reported.
SplitReturn(s) ==
    /\ pc[s] = "split_loop"
    /\ ~LoopContinues(loc[s].samples_wrote, loc[s].samples_total)
    /\ pc' = [pc EXCEPT ![s] = "list"]
    /\ shown' = [shown EXCEPT ![s] = Append(@, Show("Audio split", loc[s].split_dir))]
    /\ UNCHANGED <<fs, dirs, loc, calls, raised, wrote>>

(* --------------------------- speech to text ----------------------------- *)

\* The sequence q back to front.
RECURSIVE reversed(_)
reversed(q) == IF Len(q) = 0 THEN <<>> ELSE Append(reversed(Tail(q)), Head(q))

\* Faulty variant: the names are taken in another order than sorted's.
TranscriptionOrderReversed(files, split_dir) == reversed(sorted(listdir(files, split_dir)))

\* The order the segment files are transcribed in: sorted(os.listdir(split_dir)).
TranscriptionOrder(files, split_dir) == sorted(listdir(files, split_dir))

\* Lines 108-109.
ListSegments(s) ==
    /\ pc[s] = "list"
    /\ loc' = [loc EXCEPT ![s].transcription_ls = <<>>,
                          ![s].audio_ls = TranscriptionOrder(fs, loc[s].split_dir)]
    /\ pc' = [pc EXCEPT ![s] = "transcribe"]
    /\ UNCHANGED <<fs, dirs, calls, raised, shown, wrote>>

\* Faulty variant: the loop ends after the first segment.
MoreSegmentsFirstOnly(transcription_ls, audio_ls) ==
    Len(transcription_ls) < Min(1, Len(audio_ls))

\* The for loop has segments left.
MoreSegments(transcription_ls, audio_ls) == Len(transcription_ls) < Len(audio_ls)

\* Lines 110-112: one iteration of the for loop.
Transcribe(s) ==
    /\ pc[s] = "transcribe"
    /\ MoreSegments(loc[s].transcription_ls, loc[s].audio_ls)
    /\ LET audio == loc[s].audio_ls[Len(loc[s].transcription_ls) + 1]
           path == path_join(loc[s].split_dir, audio)
       IN  \/ /\ loc' = [loc EXCEPT ![s].transcription_ls = Append(@, Recognize(fs[path]))]
              /\ calls' = [calls EXCEPT ![s] = Append(@, Call("recognize", path))]
              /\ UNCHANGED <<fs, dirs, pc, raised, shown, wrote>>
           \/ Raises(s, <<Call("recognize", path)>>)

\* Lines 114-116: the loop is over, the transcript is joined and shown.
JoinTranscript(s) ==
    /\ pc[s] = "transcribe"
    /\ ~MoreSegments(loc[s].transcription_ls, loc[s].audio_ls)
    /\ LET transcription == join(loc[s].transcription_ls)
       IN  /\ loc' = [loc EXCEPT ![s].transcription = transcription]
           /\ shown' = [shown EXCEPT ![s] = Append(@, Show("Transcription", transcription))]
    /\ pc' = [pc EXCEPT ![s] = "minutes"]
    /\ UNCHANGED <<fs, dirs, calls, raised, wrote>>

(* ------------------------------- analysis ------------------------------- *)

\* Lines 118-122: the language model is a black box.
Minutes(s) ==
    /\ pc[s] = "minutes"
    /\ \/ /\ LET final_note == <<[kind |-> "minutes", of |-> loc[s].transcription]>>
             IN  /\ loc' = [loc EXCEPT ![s].final_note = final_note]
                 /\ shown' = [shown EXCEPT ![s] = Append(@, Show("Minutes", final_note))]
          /\ calls' = [calls EXCEPT ![s] = Append(@, Call("summarize", <<>>))]
          /\ pc' = [pc EXCEPT ![s] = "productivity"]
          /\ UNCHANGED <<fs, dirs, raised, wrote>>
       \/ Raises(s, <<Call("summarize", <<>>)>>)

\* Lines 124-127 and evaluate_productivity (70-77); sentences is what
\* sent_tokenize returned for the transcript.
Productivity(s, sentences) ==
    /\ pc[s] = "productivity"
    /\ \/ /\ LET productive_segments == evaluate_productivity(sentences)
             IN  /\ loc' = [loc EXCEPT ![s].sentences = sentences,
                                       ![s].productive_segments = productive_segments]
                 /\ shown' = [shown EXCEPT ![s] =
                                Append(@, Show("Productive Segments", productive_segments))]
          /\ calls' = [calls EXCEPT ![s] = Append(@, Call("productivity", <<>>))]
          /\ pc' = [pc EXCEPT ![s] = "sentiment"]
          /\ UNCHANGED <<fs, dirs, raised, wrote>>
       \/ Raises(s, <<Call("productivity", <<>>)>>)

\* Lines 129-132: the sentiment of the whole transcript.
Sentiment(s, compound) ==
    /\ pc[s] = "sentiment"
    /\ \/ /\ LET sentiment == sentiment_analysis(compound)
             IN  /\ loc' = [loc EXCEPT ![s].sentiment = sentiment]
                 /\ shown' = [shown EXCEPT ![s] = Append(@, Show("Overall Sentiment", sentiment))]
          /\ calls' = [calls EXCEPT ![s] = Append(@, Call("sentiment", <<>>))]
          /\ pc' = [pc EXCEPT ![s] = "segment_sentiment"]
          /\ UNCHANGED <<fs, dirs, raised, wrote>>
       \/ Raises(s, <<Call("sentiment", <<>>)>>)

\* The sentiment_analysis calls of line 134 for the first n fragments.
SegmentCalls(n) == [i \in 1..n |-> Call("sentiment", <<<<i>>>>)]

\* Lines 134-135: one sentiment_analysis call per fragment, then the script ends.
\* The labels of the fragments are not kept in the state, only their number.
SegmentSentiment(s) ==
    /\ pc[s] = "segment_sentiment"
    /\ LET n == Len(loc[s].transcription_ls)
       IN  \/ /\ calls' = [calls EXCEPT ![s] = @ \o SegmentCalls(n)]
              /\ shown' = [shown EXCEPT ![s] = Append(@, Show("Segment Sentiments", n))]
              /\ pc' = [pc EXCEPT ![s] = "done"]
              /\ loc' = [loc EXCEPT ![s] = NoLocals]
              /\ UNCHANGED <<fs, dirs, raised, wrote>>
           \/ \E failing \in 1..n : Raises(s, SegmentCalls(failing))

(* ---------------------------- specifications --------------------------- *)

\* The session of the sequential specifications.
Main == "A"

\* One session, one run after the other (section 5: one request in flight);
\* the uploads are loaded at one sample per second.
Next ==
    \/ \E i \in 0..MaxUploads : StartRun(Main, i * UploadStep, 1)
    \/ SaveUpload(Main)
    \/ Preprocess(Main)
    \/ SplitLoad(Main)
    \/ SplitWrite(Main)
    \/ SplitReturn(Main)
    \/ ListSegments(Main)
    \/ Transcribe(Main)
    \/ JoinTranscript(Main)
    \/ Minutes(Main)
    \/ \E sentences \in BoundedSeq(SentencePool, MaxSentences) : Productivity(Main, sentences)
    \/ \E compound \in Scores : Sentiment(Main, compound)
    \/ SegmentSentiment(Main)

Spec == Init /\ [][Next]_vars

\* split_audio alone, on a file of n samples at the given rate.
SplitCall(n, rate, segment_duration) ==
    LET file_name == PreprocessedPath(UploadPath)
    IN  /\ fs = write_file(NoFiles, file_name, [src |-> Main, lo |-> 0, hi |-> n, sr |-> rate])
        /\ dirs = {dirname(file_name)}
        /\ pc = [s \in Sessions |-> IF s = Main THEN "split" ELSE "idle"]
        /\ loc = [s \in Sessions |->
                    IF s = Main
                    THEN [NoLocals EXCEPT !.preprocessed_file = file_name,
                                          !.segment_duration = segment_duration]
                    ELSE NoLocals]
        /\ calls = [s \in Sessions |-> <<>>]
        /\ raised = [s \in Sessions |-> 0]
        /\ shown = [s \in Sessions |-> <<>>]
        /\ wrote = [s \in Sessions |-> <<>>]

InitSplit ==
    \E n \in 0..MaxSamples, rate \in Rates, segment_duration \in 1..MaxSegDur :
        SplitCall(n, rate, segment_duration)

NextSplit ==
    \/ SplitLoad(Main)
    \/ SplitWrite(Main)
    \/ SplitReturn(Main)

SpecSplit == InitSplit /\ [][NextSplit]_vars

\* The end-to-end case: a 65-second file, the default segment duration.
E2ERates == (1..MaxE2ERate) \cup {8000, 16000, 22050, 44100, 48000}

InitE2E == \E rate \in E2ERates : SplitCall(65 * rate, rate, DefaultSegmentDuration)

SpecE2E == InitE2E /\ [][NextSplit]_vars

\* Two sessions of the same process, each with one upload, up to the transcript.
NextConc ==
    \E s \in Sessions :
        \/ \E i \in 1..MaxConcUploads :
              /\ pc[s] = "idle"
              /\ StartRun(s, i * UploadStep, 1)
        \/ SaveUpload(s)
        \/ Preprocess(s)
        \/ SplitLoad(s)
        \/ SplitWrite(s)
        \/ SplitReturn(s)
        \/ ListSegments(s)
        \/ Transcribe(s)
        \/ JoinTranscript(s)

SpecConc == Init /\ [][NextConc]_vars

\* A script run keeps executing: split_audio alone, with weak fairness of its steps.
SpecSplitFair == InitSplit /\ [][NextSplit]_vars /\ WF_vars(NextSplit)

(* -------------------------------- claims -------------------------------- *)

\* The window size W = segment_duration * sample_rate of the run's split_audio.
Window == loc[Main].segment_duration * loc[Main].sr

\* The i-th block split_audio wrote.
Seg(i) == wrote[Main][i].block

\* How many of the first k written blocks hold sample x of the stretched signal.
Holders(x, k) == Cardinality({i \in 1..k : Seg(i).lo <= x /\ x < Seg(i).hi})

RECURSIVE SumLens(_)
SumLens(k) == IF k = 0 THEN 0 ELSE SumLens(k - 1) + len(Seg(k))

Ceil(n, w) == (n + w - 1) \div w

\* C1: the segments written by split_audio partition the stretched signal of N
\* samples: segment i holds exactly the samples [(i-1)*W, min(i*W, N)), no sample
\* is written twice, and once split_audio has returned no sample is dropped, the
\* lengths sum to N, every segment but the last has W samples and the last has
\* between 1 and W.
C1_Partition ==
    pc[Main] \in {"split_loop", "list"} =>
        LET N == loc[Main].samples_total
            k == Len(wrote[Main])
        IN  /\ Window >= 1
            /\ \A i \in 1..k :
                  /\ Seg(i).src = Main
                  /\ Seg(i).lo = (i - 1) * Window
                  /\ Seg(i).hi = Min(i * Window, N)
                  /\ fs[wrote[Main][i].path] = Seg(i)
            /\ \A x \in 0..(N - 1) : Holders(x, k) <= 1
            /\ pc[Main] = "list" =>
                  /\ \A x \in 0..(N - 1) : Holders(x, k) = 1
                  /\ SumLens(k) = N
                  /\ \A i \in 1..(k - 1) : len(Seg(i)) = Window
                  /\ k >= 1 => len(Seg(k)) \in 1..Window

\* C1 witness: split_audio returned three or more segments, the last one partial.
C1_Witness ==
    /\ pc[Main] = "list"
    /\ Len(wrote[Main]) >= 3
    /\ len(Seg(Len(wrote[Main]))) < Window
    /\ Window >= 2

\* The value of a string of decimal digits; -1 if it is not one.
RECURSIVE DecimalValue(_)
DecimalValue(d) ==
    IF Len(d) = 0 \/ d[Len(d)] \notin 48..57 THEN -1
    ELSE IF Len(d) = 1 THEN d[1] - 48
    ELSE IF DecimalValue(SubSeq(d, 1, Len(d) - 1)) < 1 THEN -1
    ELSE 10 * DecimalValue(SubSeq(d, 1, Len(d) - 1)) + d[Len(d)] - 48

\* The number n of a file name "split_<n>.wav"; -1 for any other name.
SegmentNumber(name) ==
    IF /\ Len(name) > Len(STR_split_) + Len(STR_wav)
       /\ SubSeq(name, 1, Len(STR_split_)) = STR_split_
       /\ SubSeq(name, Len(name) - Len(STR_wav) + 1, Len(name)) = STR_wav
    THEN DecimalValue(SubSeq(name, Len(STR_split_) + 1, Len(name) - Len(STR_wav)))
    ELSE -1

\* "out/preprocessed_uploaded_audio": where the segments of the pipeline go.
SegmentDirectory ==
    << <<111, 117, 116>>,
       <<112, 114, 101, 112, 114, 111, 99, 101, 115, 115, 101, 100, 95,
         117, 112, 108, 111, 97, 100, 101, 100, 95, 97, 117, 100, 105, 111>> >>

\* The files split_audio has written are split_1.wav, split_2.wav, ... in order,
\* never more than ceil(N / W) of them, exactly that many once it has returned.
C4_Files ==
    pc[Main] \in {"split_loop", "list"} =>
        LET N == loc[Main].samples_total
            k == Len(wrote[Main])
        IN  /\ k <= Ceil(N, Window)
            /\ \A i \in 1..k :
                  /\ dirname(wrote[Main][i].path) = SegmentDirectory
                  /\ SegmentNumber(basename(wrote[Main][i].path)) = i
            /\ pc[Main] = "list" =>
                  /\ k = Ceil(N, Window)
                  /\ N = 0 => k = 0
                  /\ Cardinality(listdir(fs, SegmentDirectory)) = k

\* C4: split_audio terminates (it returns, or a call in it raises) after writing
\* exactly ceil(N / W) files named split_1.wav, split_2.wav, ... in the order of
\* the windows; for N = 0 no file is written.
C4_CountAndNames == [](C4_Files) /\ <>(pc[Main] \in {"list", "failed"})

\* C4 witness: split_audio returned after writing ten or more files.
C4_Witness ==
    /\ pc[Main] = "list"
    /\ Len(wrote[Main]) >= 10
    /\ Len(wrote[Main]) = Ceil(loc[Main].samples_total, Window)

\* C5 as stated: the 65-second input gives three segments of 30 s, 30 s and
\* about 4.4 s (within half a second).
C5_Original ==
    pc[Main] = "list" =>
        /\ Len(wrote[Main]) = 3
        /\ len(Seg(1)) = 30 * loc[Main].sr
        /\ len(Seg(2)) = 30 * loc[Main].sr
        /\ 10 * len(Seg(3)) >= 39 * loc[Main].sr
        /\ 10 * len(Seg(3)) <= 49 * loc[Main].sr

\* C5, amended: the 65-second input, stretched at rate 0.95 to 65 / 0.95 = 68.4 s,
\* gives three segments of 30 s, 30 s and about 8.4 s (within half a second).
C5_Amended ==
    pc[Main] = "list" =>
        /\ Len(wrote[Main]) = 3
        /\ len(Seg(1)) = 30 * loc[Main].sr
        /\ len(Seg(2)) = 30 * loc[Main].sr
        /\ 10 * len(Seg(3)) >= 79 * loc[Main].sr
        /\ 10 * len(Seg(3)) <= 89 * loc[Main].sr

\* C5 witness: at 22050 Hz the 1433250 samples stretch to 1508684 and the third
\* segment holds 185684 samples (8.42 s).
C5_Witness ==
    /\ pc[Main] = "list"
    /\ loc[Main].sr = 22050
    /\ loc[Main].samples_total = 1508684
    /\ Len(wrote[Main]) = 3
    /\ len(Seg(3)) = 185684

(* ----------------------- claims about the pipeline ---------------------- *)

\* The runs in which no call raises.
NextCompleted == Next /\ raised'[Main] = 0

SpecCompleted == Init /\ [][NextCompleted]_vars

\* The run has listed the segment files and has not ended.
Transcribing ==
    pc[Main] \in {"transcribe", "minutes", "productivity", "sentiment", "segment_sentiment"}

\* The names of the files the run's split_audio wrote.
OwnNames == {basename(wrote[Main][i].path) : i \in 1..Len(wrote[Main])}

\* C2: the i-th fragment of the transcript is the recognizer's text for the
\* segment split_audio wrote i-th (split_i.wav), whatever the number of segments.
C2_TemporalOrder ==
    Transcribing =>
        \A j \in 1..Len(loc[Main].transcription_ls) :
            /\ j <= Len(wrote[Main])
            /\ SegmentNumber(loc[Main].audio_ls[j]) = j
            /\ loc[Main].transcription_ls[j] = Recognize(Seg(j))

\* C3: with 1 to 9 segments in an otherwise empty directory, the sorted file
\* names are split_1.wav, ..., split_k.wav in this order and the fragments are
\* the texts of the segments in the order they were written.
C3_SortedOrder ==
    ( /\ Transcribing
      /\ Len(wrote[Main]) \in 1..9
      /\ listdir(fs, loc[Main].split_dir) = OwnNames )
    =>  /\ Len(loc[Main].audio_ls) = Len(wrote[Main])
        /\ \A i \in 1..Len(loc[Main].audio_ls) :
              /\ SegmentNumber(loc[Main].audio_ls[i]) = i
              /\ loc[Main].audio_ls[i] = basename(wrote[Main][i].path)
        /\ \A j \in 1..Len(loc[Main].transcription_ls) :
              loc[Main].transcription_ls[j] = Recognize(Seg(j))

\* C3 witness: nine segments in an otherwise empty directory, all transcribed.
C3_Witness ==
    /\ pc[Main] = "minutes"
    /\ Len(wrote[Main]) = 9
    /\ listdir(fs, loc[Main].split_dir) = OwnNames
    /\ Len(loc[Main].transcription_ls) = 9
    /\ loc[Main].transcription_ls[9] = Recognize(Seg(9))

\* C9: the files the transcriber reads are exactly the segments this run's
\* split_audio wrote; no fragment comes from a file an earlier run left.
C9_OnlyOwnSegments ==
    Transcribing =>
        /\ {loc[Main].audio_ls[i] : i \in 1..Len(loc[Main].audio_ls)} = OwnNames
        /\ \A j \in 1..Len(loc[Main].transcription_ls) :
              loc[Main].transcription_ls[j].of.src = Main

\* The place of a call in the order of the stages.
Rank(call) ==
    CASE call.stage = "save"         -> 1
      [] call.stage = "normalize"    -> 2
      [] call.stage = "segment"      -> 3
      [] call.stage = "recognize"    -> 4
      [] call.stage = "summarize"    -> 5
      [] call.stage = "productivity" -> 6
      [] call.stage = "sentiment"    -> IF call.arg = <<>> THEN 7 ELSE 8

\* The stage whose completion a panel of the page reports.
PanelRank(panel) ==
    CASE panel = "Audio preprocessed"  -> 2
      [] panel = "Audio split"         -> 3
      [] panel = "Transcription"       -> 4
      [] panel = "Minutes"             -> 5
      [] panel = "Productive Segments" -> 6
      [] panel = "Overall Sentiment"   -> 7
      [] panel = "Segment Sentiments"  -> 8

Panels(s) == {shown[s][i].panel : i \in 1..Len(shown[s])}

RecognizeCalls(s) == {i \in 1..Len(calls[s]) : calls[s][i].stage = "recognize"}

\* C6: fail fast, no retries.  Once a call of a run has raised, the run has
\* failed and makes no further call; nothing is shown for the failed stage or a
\* later one (so no partial transcript); a transcript that is shown has one
\* fragment per recognizer call; and no call is made twice in a run.
C6_FailFast ==
    \A s \in Sessions :
        /\ raised[s] # 0 =>
              /\ pc[s] = "failed"
              /\ raised[s] = Len(calls[s])
              /\ \A panel \in Panels(s) : PanelRank(panel) < Rank(calls[s][raised[s]])
        /\ \A i \in 1..Len(shown[s]) :
              shown[s][i].panel = "Transcription" =>
                  /\ Len(shown[s][i].value) = 2 * Cardinality(RecognizeCalls(s)) - 1
                  /\ (raised[s] # 0 => Rank(calls[s][raised[s]]) > 4)
        /\ \A i, j \in 1..Len(calls[s]) : i # j => calls[s][i] # calls[s][j]

\* C6 witness: the recognizer raised on the third segment; the run has failed
\* and no transcript is shown.
C6_Witness ==
    /\ pc[Main] = "failed"
    /\ raised[Main] = 6
    /\ Cardinality(RecognizeCalls(Main)) = 3
    /\ "Transcription" \notin Panels(Main)
    /\ "Audio split" \in Panels(Main)

\* The segment files in the directory of the pipeline.
SegmentFiles == {p \in DOMAIN fs : dirname(p) = SegmentDirectory}

\* C7: the stages of a run are called in the order save, normalize, segment,
\* recognize (each segment), summarize, productivity, sentiment, each only after
\* the one before it has produced its output; the stages after the transcript
\* are called only once every segment file has been recognized and the
\* transcript joined from all of them is shown.
C7_StageOrder ==
    LET c == calls[Main]
        reached(r) == \E i \in 1..Len(c) : Rank(c[i]) >= r
    IN  /\ Len(c) >= 1 => Rank(c[1]) = 1
        /\ \A i \in 1..(Len(c) - 1) :
              \/ Rank(c[i + 1]) = Rank(c[i]) + 1
              \/ Rank(c[i + 1]) = Rank(c[i]) /\ Rank(c[i]) \in {4, 8}
        /\ reached(2) => UploadPath \in DOMAIN fs /\ fs[UploadPath].src = Main
        /\ reached(3) => /\ PreprocessedPath(UploadPath) \in DOMAIN fs
                         /\ fs[PreprocessedPath(UploadPath)].src = Main
                         /\ "Audio preprocessed" \in Panels(Main)
        /\ reached(4) => "Audio split" \in Panels(Main)
        /\ reached(5) =>
              /\ {c[i].arg : i \in RecognizeCalls(Main)} = SegmentFiles
              /\ \E i \in 1..Len(shown[Main]) :
                    /\ shown[Main][i].panel = "Transcription"
                    /\ Len(shown[Main][i].value) = 2 * Cardinality(SegmentFiles) - 1
                    /\ \A p \in SegmentFiles :
                          \E j \in 1..Len(shown[Main][i].value) :
                              shown[Main][i].value[j] = Recognize(fs[p])
        /\ reached(6) => "Minutes" \in Panels(Main)
        /\ reached(7) => "Productive Segments" \in Panels(Main)
        /\ reached(8) => "Overall Sentiment" \in Panels(Main)

\* C7 witness: a run of three segments has gone through every stage.
C7_Witness ==
    /\ pc[Main] = "done"
    /\ Cardinality(RecognizeCalls(Main)) = 3
    /\ Len(calls[Main]) = 12
    /\ Rank(calls[Main][12]) = 8

\* Lowercase of one character code.
LowerCode(c) == IF c >= 65 /\ c <= 90 THEN c + 32 ELSE c

\* The lowercase form of the sentence contains one of the keywords.
MatchesKeyword(sentence) ==
    \E n \in 1..Len(productivity_keywords) :
        \E off \in 0..Len(sentence) :
            /\ off + Len(productivity_keywords[n]) <= Len(sentence)
            /\ \A t \in 1..Len(productivity_keywords[n]) :
                  LowerCode(sentence[off + t]) = productivity_keywords[n][t]

\* C8: evaluate_productivity returns exactly the sentences whose lowercase form
\* contains one of the nine keywords, with their original text and in their
\* original order; the result is empty when no sentence matches.
C8_ProductiveSubsequence ==
    pc[Main] \in {"sentiment", "segment_sentiment"} =>
        LET sentences == loc[Main].sentences
            result == loc[Main].productive_segments
            M == {i \in 1..Len(sentences) : MatchesKeyword(sentences[i])}
            Nth(j) == CHOOSE i \in M : Cardinality({m \in M : m < i}) = j - 1
        IN  /\ Len(productivity_keywords) = 9
            /\ Len(result) = Cardinality(M)
            /\ \A j \in 1..Len(result) : result[j] = sentences[Nth(j)]
            /\ M = {} => result = <<>>

\* C8 witness: of "Hi." and "TASK!" only the second is kept, in its original case.
C8_Witness ==
    /\ pc[Main] = "sentiment"
    /\ loc[Main].sentences = << <<72, 105, 46>>, <<84, 65, 83, 75, 33>> >>
    /\ loc[Main].productive_segments = << <<84, 65, 83, 75, 33>> >>

(* ---------------------- claims about concurrent runs --------------------- *)

\* p is one of the intermediate files, the segments being in segment_dir.
IntermediateFile(p, segment_dir) ==
    \/ p = << <<117, 112, 108, 111, 97, 100, 101, 100, 95, 97, 117, 100, 105, 111,
                46, 119, 97, 118>> >>
    \/ p = << <<112, 114, 101, 112, 114, 111, 99, 101, 115, 115, 101, 100>>,
              <<112, 114, 101, 112, 114, 111, 99, 101, 115, 115, 101, 100, 95,
                117, 112, 108, 111, 97, 100, 101, 100, 95, 97, 117, 100, 105, 111,
                46, 119, 97, 118>> >>
    \/ dirname(p) = segment_dir /\ SegmentNumber(basename(p)) >= 1

\* The i-th segment of every run goes to the same path.
SegmentsNotNamespaced ==
    \A s, t \in Sessions :
        \A i \in 1..Min(Len(wrote[s]), Len(wrote[t])) :
            wrote[s][i].path = wrote[t][i].path

====
